---- MODULE Spec2Model ----
(***************************************************************************)
(* A model of metric_visualizer.MetricVisualizer: the trial-indexed metric *)
(* store (add_metric, next_trial), its persistence (dump, load) and the     *)
(* views derived from it (transpose, trial labels, reductions, summary).   *)
(*                                                                         *)
(* Python strings that are formatted, searched or compared are sequences   *)
(* of one-character strings; a dict (insertion ordered) is a sequence of   *)
(* records [k |-> key, v |-> value] with pairwise different keys.          *)
(***************************************************************************)
EXTENDS Integers, Sequences, FiniteSets, TLC

VARIABLES
    stores,     \* the MetricVisualizer objects of the process, by slot
    storage,    \* the working directory: file name -> pickled object
    op,         \* the call made by the last step and its outcome
    calls,      \* per slot: next_trial calls made on that object so far
    log,        \* every add_metric call so far, oldest first
    view,       \* the mapping the last transpose() returned to the caller
    out         \* what the last plot or summary call resolved, computed and printed

vars == <<stores, storage, op, calls, log, view, out>>

----------------------------------------------------------------------------
(* Bounds of the model *)

MaxTrial == 3          \* next_trial calls per store in Spec
MaxSamples == 3        \* add_metric calls in Spec
LoadMaxTrial == 11     \* next_trial calls in SpecLoad
LoadMaxSamples == 1    \* add_metric calls in SpecLoad
SharedMaxTrial == 3    \* next_trial calls in SpecShared, all stores together
SharedMaxSamples == 1  \* add_metric calls in SpecShared, all stores together
DirMaxTrial == 2       \* next_trial calls in SpecDir, all stores together
DirMaxSamples == 1     \* add_metric calls in SpecDir, all stores together
UseMaxTrial == 2       \* next_trial calls in SpecUse
UseMaxSamples == 2     \* add_metric calls in SpecUse

----------------------------------------------------------------------------
(* Strings *)

\* The characters the model's strings use, in code-point order.
Alphabet ==
    <<"-", ".", "0", "1", "2", "3", "4", "5", "6", "7", "8", "9", "_",
      "a", "b", "c", "d", "e", "f", "g", "h", "i", "j", "k", "l", "m",
      "n", "o", "p", "q", "r", "s", "t", "u", "v", "w", "x", "y", "z">>

Ord(c) == CHOOSE i \in 1..Len(Alphabet) : Alphabet[i] = c

DigitChars == <<"0", "1", "2", "3", "4", "5", "6", "7", "8", "9">>

\* '{}'.format(n) for an int n >= 0: its decimal digits.
RECURSIVE FormatInt(_)
FormatInt(n) ==
    IF n < 10 THEN <<DigitChars[n + 1]>>
    ELSE FormatInt(n \div 10) \o <<DigitChars[(n % 10) + 1]>>

\* Python's str order: s < t.
RECURSIVE StrLess(_, _)
StrLess(s, t) ==
    IF t = <<>> THEN FALSE
    ELSE IF s = <<>> THEN TRUE
    ELSE IF Head(s) = Head(t) THEN StrLess(Tail(s), Tail(t))
    ELSE Ord(Head(s)) < Ord(Head(t))

\* max(dats) for a non-empty collection of different strings.
StrMax(S) == CHOOSE m \in S : \A x \in S : x = m \/ StrLess(x, m)

\* p in s (substring test).
Contains(s, p) ==
    \E i \in 0..(Len(s) - Len(p)) : SubSeq(s, i + 1, i + Len(p)) = p

----------------------------------------------------------------------------
(* Dicts *)

DictKeys(d) == [i \in 1..Len(d) |-> d[i].k]

DictHas(d, key) == \E i \in 1..Len(d) : d[i].k = key

DictGet(d, key) == d[CHOOSE i \in 1..Len(d) : d[i].k = key].v

DictSet_InsertsFirst(d, key, val) ==
    IF DictHas(d, key)
    THEN [i \in 1..Len(d) |-> IF d[i].k = key THEN [k |-> key, v |-> val] ELSE d[i]]
    ELSE <<[k |-> key, v |-> val]>> \o d

\* d[key] = val: replaces the value in place, or inserts the key last.
DictSet(d, key, val) ==
    IF DictHas(d, key)
    THEN [i \in 1..Len(d) |-> IF d[i].k = key THEN [k |-> key, v |-> val] ELSE d[i]]
    ELSE Append(d, [k |-> key, v |-> val])

----------------------------------------------------------------------------
(* MetricVisualizer *)

NoStore == [absent |-> TRUE]

DefaultName == <<"u", "n", "n", "a", "m", "e", "d">>

DefaultFilename ==
    <<"m", "e", "t", "r", "i", "c", "_", "v", "i", "s", "u", "a", "l", "i", "z", "e", "r",
      ".", "d", "a", "t">>

\* __init__(name, trial_tag, trial_tag_list, metric_dict=None)
Construct(name, trial_tag, trial_tag_list) ==
    [name |-> name,
     trial_tag |-> IF trial_tag = "" THEN "Trial" ELSE trial_tag,
     trial_tag_list |-> trial_tag_list,
     metrics |-> <<>>,
     trial_id |-> 0,
     box_plot_tex_template |-> "box.tex",
     bar_plot_tex_template |-> "bar.tex",
     violin_plot_tex_template |-> "violin.tex",
     traj_plot_tex_template |-> "traj.tex"]

TrialKey_NoId(trial_id) == <<"t", "r", "i", "a", "l", "-">>

\* 'trial-{}'.format(trial_id)
TrialKey(trial_id) == <<"t", "r", "i", "a", "l", "-">> \o FormatInt(trial_id)

AddMetricTo_Overwrites(metrics, trial_id, metric_name, value) ==
    IF DictHas(metrics, metric_name)
    THEN DictSet(metrics, metric_name,
                 DictSet(DictGet(metrics, metric_name), TrialKey(trial_id), <<value>>))
    ELSE DictSet(metrics, metric_name, <<[k |-> TrialKey(trial_id), v |-> <<value>>]>>)

\* The metrics mapping after add_metric(metric_name, value) at trial_id.
AddMetricTo(metrics, trial_id, metric_name, value) ==
    IF DictHas(metrics, metric_name)
    THEN LET trials == DictGet(metrics, metric_name) IN
         IF ~DictHas(trials, TrialKey(trial_id))
         THEN DictSet(metrics, metric_name, DictSet(trials, TrialKey(trial_id), <<value>>))
         ELSE DictSet(metrics, metric_name,
                      DictSet(trials, TrialKey(trial_id),
                              Append(DictGet(trials, TrialKey(trial_id)), value)))
    ELSE DictSet(metrics, metric_name, <<[k |-> TrialKey(trial_id), v |-> <<value>>]>>)

\* The file name dump(filename) writes.
DumpName(self, filename) ==
    self.name \o <<"-", "t", "r", "i", "a", "l", "_", "i", "d", "-">>
              \o FormatInt(self.trial_id) \o <<"-">> \o filename

Pickle_DropsMetrics(self) ==
    [cls |-> "MetricVisualizer", state |-> [self EXCEPT !.metrics = <<>>]]

\* pickle.dumps(self): the class and the instance's attributes, by value.
Pickle(self) == [cls |-> "MetricVisualizer", state |-> self]

\* pickle.loads(blob)
Unpickle(blob) == blob.state

\* The directory after dump(filename): the file is created or replaced.
Dump(dir, self, filename) ==
    [f \in DOMAIN dir \cup {DumpName(self, filename)} |->
        IF f = DumpName(self, filename) THEN Pickle(self) ELSE dir[f]]

Advance_Stays(self) == self

Advance_OpensEmptyTrials(self) ==
    [self EXCEPT !.trial_id = self.trial_id + 1,
                 !.metrics = [i \in 1..Len(self.metrics) |->
                                 [k |-> self.metrics[i].k,
                                  v |-> Append(self.metrics[i].v,
                                               [k |-> TrialKey(self.trial_id + 1), v |-> <<>>])]]]

\* The store after the first statement of next_trial.
Advance(self) == [self EXCEPT !.trial_id = self.trial_id + 1]

NextTrialDump_BeforeAdvance(dir, self) == Dump(dir, self, DefaultFilename)

\* The directory after next_trial() on self: the advanced store is dumped.
NextTrialDump(dir, self) == Dump(dir, Advance(self), DefaultFilename)

NoView == [absent |-> TRUE]

NoOut == [labels |-> <<>>, diags |-> <<>>, Y |-> <<>>, rows |-> <<>>, err |-> "none"]

ViewAfterAppend_Copy(v, s, metric_name, key, value) == v

\* The view after a value was appended to the list metrics[metric_name][key] of the
\* store in slot s: transpose() put that very list into the view it returned.
ViewAfterAppend(v, s, metric_name, key, value) ==
    IF v # NoView /\ v.owner = s /\ DictHas(v.map, key)
          /\ DictHas(DictGet(v.map, key), metric_name)
    THEN [v EXCEPT !.map =
            DictSet(v.map, key,
                    DictSet(DictGet(v.map, key), metric_name,
                            Append(DictGet(DictGet(v.map, key), metric_name), value)))]
    ELSE v

NoOp == [name |-> "init", s |-> 0, metric |-> "", value |-> 0,
         pattern |-> <<>>, file |-> <<>>, err |-> "none",
         by |-> "", save_path |-> <<>>, template |-> ""]

\* add_metric(metric_name, value) on the store in slot s
AddMetric(s, metric_name, value) ==
    /\ stores[s] # NoStore
    /\ stores' = [stores EXCEPT ![s].metrics =
                    AddMetricTo(stores[s].metrics, stores[s].trial_id, metric_name, value)]
    /\ op' = [NoOp EXCEPT !.name = "add_metric", !.s = s,
                          !.metric = metric_name, !.value = value]
    /\ log' = Append(log, [s |-> s, metric |-> metric_name, value |-> value,
                           trial |-> calls[s]])
    /\ view' = ViewAfterAppend(view, s, metric_name, TrialKey(stores[s].trial_id), value)
    /\ UNCHANGED <<storage, calls, out>>

\* next_trial() on the store in slot s
NextTrial(s) ==
    /\ stores[s] # NoStore
    /\ stores' = [stores EXCEPT ![s] = Advance(stores[s])]
    /\ storage' = NextTrialDump(storage, stores[s])
    /\ op' = [NoOp EXCEPT !.name = "next_trial", !.s = s,
                          !.file = DumpName(stores'[s], DefaultFilename)]
    /\ calls' = [calls EXCEPT ![s] = calls[s] + 1]
    /\ UNCHANGED <<log, view, out>>

\* find_cwd_files(key): the files of the directory whose path contains key.
FindCwdFiles(dir, key) == {f \in DOMAIN dir : Contains(f, key)}

NotFound == <<"ValueError">>

LoadFile_AlwaysSearches(dir, filename) ==
    IF FindCwdFiles(dir, filename) = {} THEN NotFound
    ELSE StrMax(FindCwdFiles(dir, filename))

LoadFile_DefaultsToOldest(dir, filename) ==
    IF filename \in DOMAIN dir THEN filename
    ELSE IF FindCwdFiles(dir, filename) = {}
         THEN IF DOMAIN dir = {} THEN NotFound
              ELSE CHOOSE f \in DOMAIN dir : \A g \in DOMAIN dir : g = f \/ StrLess(f, g)
    ELSE StrMax(FindCwdFiles(dir, filename))

\* The file load(filename) opens, or NotFound when it raises ValueError.
LoadFile(dir, filename) ==
    IF filename \in DOMAIN dir THEN filename
    ELSE IF FindCwdFiles(dir, filename) = {} THEN NotFound
    ELSE StrMax(FindCwdFiles(dir, filename))

\* mv = MetricVisualizer.load(filename), the result bound to the free slot s
Load(s, filename) ==
    /\ stores[s] = NoStore
    /\ LET file == LoadFile(storage, filename) IN
       IF file = NotFound
       THEN /\ op' = [NoOp EXCEPT !.name = "load", !.s = s, !.pattern = filename,
                                  !.err = "ValueError"]
            /\ UNCHANGED stores
       ELSE /\ op' = [NoOp EXCEPT !.name = "load", !.s = s, !.pattern = filename,
                                  !.file = file]
            /\ stores' = [stores EXCEPT ![s] = Unpickle(storage[file])]
    /\ UNCHANGED <<storage, calls, log, view, out>>

\* mv = MetricVisualizer(name), bound to the free slot s
New(s, name) ==
    /\ stores[s] = NoStore
    /\ stores' = [stores EXCEPT ![s] = Construct(name, "", <<>>)]
    /\ op' = [NoOp EXCEPT !.name = "new", !.s = s]
    /\ UNCHANGED <<storage, calls, log, view, out>>

----------------------------------------------------------------------------
(* Views: transpose *)

\* __init__(name, trial_tag, trial_tag_list, metric_dict) with a metric_dict given
ConstructWith(name, trial_tag, trial_tag_list, metric_dict) ==
    [Construct(name, trial_tag, trial_tag_list) EXCEPT !.metrics = metric_dict]

\* The (metric, trial, samples) triples in the order the two loops of transpose
\* visit them, from metric i on.
RECURSIVE VisitFrom(_, _)
VisitFrom(metrics, i) ==
    IF i > Len(metrics) THEN <<>>
    ELSE [j \in 1..Len(metrics[i].v) |->
             [m |-> metrics[i].k, t |-> metrics[i].v[j].k, v |-> metrics[i].v[j].v]]
         \o VisitFrom(metrics, i + 1)

TransposeStep_NewDictEachTime(acc, it) ==
    DictSet(acc, it.t, <<[k |-> it.m, v |-> it.v]>>)

\* One pass of the inner loop body of transpose.
TransposeStep(acc, it) ==
    LET acc1 == IF ~DictHas(acc, it.t) THEN DictSet(acc, it.t, <<>>) ELSE acc
    IN  DictSet(acc1, it.t, DictSet(DictGet(acc1, it.t), it.m, it.v))

RECURSIVE TransposeFold(_, _)
TransposeFold(items, acc) ==
    IF items = <<>> THEN acc
    ELSE TransposeFold(Tail(items), TransposeStep(acc, Head(items)))

TransposeOf_SortsTrials(metrics) ==
    LET T == TransposeFold(VisitFrom(metrics, 1), <<>>)
        Before(a, b) == StrLess(a.k, b.k)
    IN  SortSeq(T, Before)

\* transposed_metrics as transpose() returns it for self.metrics = metrics.
TransposeOf(metrics) == TransposeFold(VisitFrom(metrics, 1), <<>>)

StoreAfterTranspose_MovesOut(self) == [self EXCEPT !.metrics = <<>>]

\* The store after transpose(): the method assigns no attribute.
StoreAfterTranspose(self) == self

\* MetricVisualizer(metric_dict=view), bound to the free slot s: the mapping that
\* transpose() returned seeds a new store.
Reseed(s) ==
    /\ stores[s] = NoStore
    /\ view # NoView
    /\ stores' = [stores EXCEPT ![s] = ConstructWith(DefaultName, "", <<>>, view.map)]
    /\ op' = [NoOp EXCEPT !.name = "new", !.s = s]
    /\ UNCHANGED <<storage, calls, log, view, out>>

\* view = mv.transpose() on the store in slot s
Transpose(s) ==
    /\ stores[s] # NoStore
    /\ view' = [owner |-> s, map |-> TransposeOf(stores[s].metrics)]
    /\ stores' = [stores EXCEPT ![s] = StoreAfterTranspose(stores[s])]
    /\ op' = [NoOp EXCEPT !.name = "transpose", !.s = s]
    /\ UNCHANGED <<storage, calls, log, out>>

----------------------------------------------------------------------------
(* Views: trial labels, reductions, the plots and summary *)

\* The number of samples summary() shows of a trial.
PreviewLen == 10

\* float('nan')
NaN == [nan |-> TRUE]

\* np.sum(xs): 0 when there is no sample.
RECURSIVE Sum(_)
Sum(xs) == IF xs = <<>> THEN 0 ELSE Head(xs) + Sum(Tail(xs))

RECURSIVE Gcd(_, _)
Gcd(a, b) == IF b = 0 THEN a ELSE Gcd(b, a % b)

\* The quotient num / den of two naturals, in lowest terms.
Ratio(num, den) ==
    LET g == Gcd(num, den) IN [num |-> num \div g, den |-> den \div g]

\* np.average(xs): nan (and a warning, no error) when there is no sample.
Average(xs) == IF xs = <<>> THEN NaN ELSE Ratio(Sum(xs), Len(xs))

ResolveTrialLabels_NoFallback(tags, trials) ==
    IF tags = <<>>
    THEN [labels |-> DictKeys(trials), diag |-> FALSE]
    ELSE [labels |-> tags, diag |-> FALSE]

\* The labels a plot resolves for one metric, and whether it prints
\* 'Unequal length of trial_tag_list and trial_num'.
ResolveTrialLabels(tags, trials) ==
    IF tags = <<>> \/ Len(tags) # Len(trials)
    THEN [labels |-> DictKeys(trials), diag |-> tags # <<>>]
    ELSE [labels |-> tags, diag |-> FALSE]

\* The mapping a plot draws: self.metrics for the by_trial forms, self.transpose()
\* for the by_metric forms (self.metrics again when that is empty).
PlotMetrics(self, by) ==
    IF by = "metric" /\ TransposeOf(self.metrics) # <<>>
    THEN TransposeOf(self.metrics)
    ELSE self.metrics

Reduce(kind, xs) == IF kind = "avg_bar_plot" THEN Average(xs) ELSE Sum(xs)

RECURSIVE ByTrialFrom_AllMetrics(_, _, _, _)
ByTrialFrom_AllMetrics(kind, plot_metrics, metric_name, i) ==
    IF i > Len(plot_metrics) THEN <<>>
    ELSE [j \in 1..Len(plot_metrics[i].v) |-> Reduce(kind, plot_metrics[i].v[j].v)]
         \o ByTrialFrom_AllMetrics(kind, plot_metrics, metric_name, i + 1)

\* Y = [f(plot_metrics[m_name][trial]) for m_name in plot_metrics.keys()
\*      for trial in plot_metrics[m_name] if metric_name == m_name], from the i-th m_name
RECURSIVE ByTrialFrom(_, _, _, _)
ByTrialFrom(kind, plot_metrics, metric_name, i) ==
    IF i > Len(plot_metrics) THEN <<>>
    ELSE (IF plot_metrics[i].k = metric_name
          THEN [j \in 1..Len(plot_metrics[i].v) |-> Reduce(kind, plot_metrics[i].v[j].v)]
          ELSE <<>>)
         \o ByTrialFrom(kind, plot_metrics, metric_name, i + 1)

\* Whether drawing one metric's trials raises: traj_plot needs np.array of the
\* trials to be rectangular (np.average(y, axis=1)), violinplot takes the minimum
\* and maximum of every trial's samples.
PlotRaises(kind, trials) ==
    \/ /\ kind = "traj_plot"
       /\ \E a, b \in 1..Len(trials) : Len(trials[a].v) # Len(trials[b].v)
    \/ /\ kind = "violin_plot"
       /\ \E a \in 1..Len(trials) : trials[a].v = <<>>

\* The loop over plot_metrics.keys() from its i-th key: labels resolved, diagnostics
\* printed and bar heights computed so far are in acc; an exception ends the loop.
RECURSIVE PlotFrom(_, _, _, _, _)
PlotFrom(kind, tags, plot_metrics, i, acc) ==
    IF i > Len(plot_metrics) \/ acc.err # "none" THEN acc
    ELSE LET metric_name == plot_metrics[i].k
             metrics == plot_metrics[i].v
             r == ResolveTrialLabels(tags, metrics)
             acc1 == [acc EXCEPT !.labels = Append(@, [k |-> metric_name, v |-> r.labels]),
                                 !.diags = IF r.diag THEN Append(@, metric_name) ELSE @]
             acc2 == IF PlotRaises(kind, metrics)
                     THEN [acc1 EXCEPT !.err = "ValueError"]
                     ELSE IF kind \in {"avg_bar_plot", "sum_bar_plot"}
                          THEN [acc1 EXCEPT !.Y = Append(@,
                                   [k |-> metric_name,
                                    v |-> ByTrialFrom(kind, plot_metrics, metric_name, 1)])]
                          ELSE acc1
         IN  PlotFrom(kind, tags, plot_metrics, i + 1, acc2)

\* One of the five plots, in its by_trial or by_metric form, on the store in slot s.
Plot(s, kind, by) ==
    /\ stores[s] # NoStore
    /\ out' = PlotFrom(kind, stores[s].trial_tag_list, PlotMetrics(stores[s], by), 1, NoOut)
    /\ op' = [NoOp EXCEPT !.name = kind, !.s = s, !.by = by, !.err = out'.err]
    /\ UNCHANGED <<stores, storage, calls, log, view>>

TrajPlot(s, by) == Plot(s, "traj_plot", by)

BoxPlot(s, by) == Plot(s, "box_plot", by)

AvgBarPlot(s, by) == Plot(s, "avg_bar_plot", by)

SumBarPlot(s, by) == Plot(s, "sum_bar_plot", by)

ViolinPlot(s, by) == Plot(s, "violin_plot", by)

\* The labels summary() resolves for one metric.
SummaryLabels(tags, trials) ==
    IF tags = <<>> \/ Len(tags) # Len(trials)
    THEN IF Len(tags) > Len(trials)
         THEN SubSeq(tags, 1, Len(trials))
         ELSE DictKeys(trials)
    ELSE tags

\* round(q, 2) of a quotient q >= 0, in hundredths; a tie goes to the even neighbour.
Round2(q) ==
    LET n == 100 * q.num
        f == n \div q.den
        r == 2 * (n % q.den)
    IN  IF r > q.den \/ (r = q.den /\ f % 2 = 1) THEN f + 1 ELSE f

Sorted(xs) == SortSeq(xs, LAMBDA a, b : a < b)

\* np.median(xs), xs not empty
Median(xs) ==
    LET s == Sorted(xs)
        n == Len(xs)
    IN  IF n % 2 = 1 THEN Ratio(s[(n + 1) \div 2], 1)
        ELSE Ratio(s[n \div 2] + s[n \div 2 + 1], 2)

\* Twice np.percentile(xs, q, interpolation='midpoint'), xs not empty: the two
\* neighbours of position (n - 1) * q / 100 are added up.
TwicePercentile(xs, q) ==
    LET s == Sorted(xs)
        h == (Len(xs) - 1) * q
        lo == h \div 100
        hi == IF h % 100 = 0 THEN lo ELSE lo + 1
    IN  s[lo + 1] + s[hi + 1]

\* scipy.stats.iqr(xs, rng=(25, 75), interpolation='midpoint')
Iqr(xs) == Ratio(TwicePercentile(xs, 75) - TwicePercentile(xs, 25), 2)

\* np.max(xs) and np.min(xs), xs not empty
MaxOf(xs) == CHOOSE x \in {xs[i] : i \in 1..Len(xs)} : \A j \in 1..Len(xs) : xs[j] <= x

MinOf(xs) == CHOOSE x \in {xs[i] : i \in 1..Len(xs)} : \A j \in 1..Len(xs) : x <= xs[j]

Preview_All(xs) == xs

\* [round(x, 2) for x in xs[:10]], xs integers
Preview(xs) == SubSeq(xs, 1, IF Len(xs) < PreviewLen THEN Len(xs) ELSE PreviewLen)

\* The table row of one trial: metric name, label, preview and the statistics
\* (Avg, Median and IQR in hundredths).
SummaryRow(mn, label, xs) ==
    [metric |-> mn, label |-> label, values |-> Preview(xs),
     avg |-> Round2(Average(xs)), median |-> Round2(Median(xs)), iqr |-> Round2(Iqr(xs)),
     max |-> MaxOf(xs), min |-> MinOf(xs)]

\* The loop over self.metrics.keys() from its i-th key; np.max of a trial without
\* samples raises ValueError and ends it.
RECURSIVE SummaryFrom(_, _, _, _)
SummaryFrom(tags, metrics, i, acc) ==
    IF i > Len(metrics) \/ acc.err # "none" THEN acc
    ELSE LET mn == metrics[i].k
             trials == metrics[i].v
             trial_tag_list == SummaryLabels(tags, trials)
             acc1 == [acc EXCEPT !.labels = Append(@, [k |-> mn, v |-> trial_tag_list])]
             acc2 == IF \E j \in 1..Len(trials) : trials[j].v = <<>>
                     THEN [acc1 EXCEPT !.err = "ValueError"]
                     ELSE [acc1 EXCEPT !.rows = @ \o
                             [j \in 1..Len(trials) |->
                                 SummaryRow(mn, trial_tag_list[j], trials[j].v)]]
         IN  SummaryFrom(tags, metrics, i + 1, acc2)

\* What summary() prints: the table, or nothing when it raised.
SummaryOf(self) ==
    LET r == SummaryFrom(self.trial_tag_list, self.metrics, 1, NoOut)
    IN  IF r.err # "none" THEN [r EXCEPT !.rows = <<>>] ELSE r

ReportName(save_path) ==
    save_path \o <<"_", "s", "u", "m", "m", "a", "r", "y", ".", "t", "x", "t">>

\* The directory after summary(save_path) wrote its text file.
WriteReport(dir, save_path, rows, metrics) ==
    [f \in DOMAIN dir \cup {ReportName(save_path)} |->
        IF f = ReportName(save_path)
        THEN [cls |-> "text", rows |-> rows, metrics |-> metrics]
        ELSE dir[f]]

StoreAfterSummary_KeepsTruncatedTags(self) ==
    [self EXCEPT !.trial_tag_list =
        IF self.metrics # <<>> THEN SummaryLabels(@, self.metrics[Len(self.metrics)].v) ELSE @]

\* summary() assigns no attribute of the store.
StoreAfterSummary(self) == self

\* summary(save_path) on the store in slot s; save_path <<>> is no save path.
Summary(s, save_path) ==
    /\ stores[s] # NoStore
    /\ out' = SummaryOf(stores[s])
    /\ stores' = [stores EXCEPT ![s] = StoreAfterSummary(stores[s])]
    /\ storage' = IF save_path # <<>> /\ out'.err = "none"
                  THEN WriteReport(storage, save_path, out'.rows, stores[s].metrics)
                  ELSE storage
    /\ op' = [NoOp EXCEPT !.name = "summary", !.s = s, !.save_path = save_path,
                          !.err = out'.err]
    /\ UNCHANGED <<calls, log, view>>

----------------------------------------------------------------------------
(* The tex templates *)

\* set_box_plot_tex_template(t) on the store in slot s
SetBoxPlotTexTemplate(s, t) ==
    /\ stores[s] # NoStore
    /\ stores' = [stores EXCEPT ![s].box_plot_tex_template = t]
    /\ op' = [NoOp EXCEPT !.name = "set_box_plot_tex_template", !.s = s, !.template = t]
    /\ UNCHANGED <<storage, calls, log, view, out>>

\* set_bar_plot_tex_template(t) on the store in slot s: the attribute assigned is
\* violin_plot_tex_template.
SetBarPlotTexTemplate(s, t) ==
    /\ stores[s] # NoStore
    /\ stores' = [stores EXCEPT ![s].violin_plot_tex_template = t]
    /\ op' = [NoOp EXCEPT !.name = "set_bar_plot_tex_template", !.s = s, !.template = t]
    /\ UNCHANGED <<storage, calls, log, view, out>>

\* set_violin_plot_tex_template(t) on the store in slot s
SetViolinPlotTexTemplate(s, t) ==
    /\ stores[s] # NoStore
    /\ stores' = [stores EXCEPT ![s].violin_plot_tex_template = t]
    /\ op' = [NoOp EXCEPT !.name = "set_violin_plot_tex_template", !.s = s, !.template = t]
    /\ UNCHANGED <<storage, calls, log, view, out>>

\* set_traj_plot_tex_template(t) on the store in slot s
SetTrajPlotTexTemplate(s, t) ==
    /\ stores[s] # NoStore
    /\ stores' = [stores EXCEPT ![s].traj_plot_tex_template = t]
    /\ op' = [NoOp EXCEPT !.name = "set_traj_plot_tex_template", !.s = s, !.template = t]
    /\ UNCHANGED <<storage, calls, log, view, out>>

----------------------------------------------------------------------------
(* The store driven by add_metric and next_trial *)

Slots == 1..3

MetricNames == {"Accuracy", "Loss"}

Values == {80, 90}

Names == {DefaultName, <<"n", "a", "m", "e", "d">>}

TagLists == {<<>>, <<"a", "b">>}

Init ==
    /\ \E name \in Names, tags \in TagLists :
          stores = [s \in Slots |-> IF s = 1 THEN Construct(name, "", tags) ELSE NoStore]
    /\ storage = <<>>
    /\ op = NoOp
    /\ calls = [s \in Slots |-> 0]
    /\ log = <<>>
    /\ view = NoView
    /\ out = NoOut

Next ==
    \/ \E m \in MetricNames, v \in Values :
          /\ Len(log) < MaxSamples
          /\ AddMetric(1, m, v)
    \/ /\ calls[1] < MaxTrial
       /\ NextTrial(1)

Spec == Init /\ [][Next]_vars

----------------------------------------------------------------------------
(* One store run through many trials, then loaded *)

Patterns ==
    {DefaultFilename,
     <<"t", "r", "i", "a", "l", "_", "i", "d", "-", "1">>,
     <<"n", "a", "m", "e", "d", "-", "t", "r", "i", "a", "l", "_", "i", "d", "-", "1", "-">>
         \o DefaultFilename,
     <<"m", "e", "t", "r", "i", "c", "s", ".", "d", "a", "t">>}

InitLoad ==
    /\ stores = [s \in Slots |-> IF s = 1 THEN Construct(DefaultName, "", <<>>) ELSE NoStore]
    /\ storage = <<>>
    /\ op = NoOp
    /\ calls = [s \in Slots |-> 0]
    /\ log = <<>>
    /\ view = NoView
    /\ out = NoOut

NextLoad ==
    \/ \E m \in MetricNames, v \in Values :
          /\ Len(log) < LoadMaxSamples
          /\ AddMetric(1, m, v)
    \/ /\ calls[1] < LoadMaxTrial
       /\ NextTrial(1)
    \/ \E p \in Patterns : Load(2, p)

SpecLoad == InitLoad /\ [][NextLoad]_vars

----------------------------------------------------------------------------
(* Several stores, constructed or loaded, sharing the directory *)

\* The lowest free slot, when there is one.
FreeSlot == CHOOSE s \in Slots : stores[s] = NoStore /\ \A x \in 1..(s - 1) : stores[x] # NoStore

\* next_trial calls made so far on the stores of slots 1..n.
RECURSIVE CallsUpTo(_)
CallsUpTo(n) == IF n = 0 THEN 0 ELSE calls[n] + CallsUpTo(n - 1)

InitShared ==
    /\ \E name \in Names :
          stores = [s \in Slots |-> IF s = 1 THEN Construct(name, "", <<>>) ELSE NoStore]
    /\ storage = <<>>
    /\ op = NoOp
    /\ calls = [s \in Slots |-> 0]
    /\ log = <<>>
    /\ view = NoView
    /\ out = NoOut

NextShared ==
    \/ \E s \in Slots, m \in MetricNames, v \in Values :
          /\ Len(log) < SharedMaxSamples
          /\ AddMetric(s, m, v)
    \/ \E s \in Slots :
          /\ CallsUpTo(Cardinality(Slots)) < SharedMaxTrial
          /\ NextTrial(s)
    \/ \E p \in Patterns :
          /\ \E s \in Slots : stores[s] = NoStore
          /\ Load(FreeSlot, p)

SpecShared == InitShared /\ [][NextShared]_vars

\* The same, with stores constructed under other names next to them.
NextDir ==
    \/ \E s \in Slots, v \in Values :
          /\ Len(log) < DirMaxSamples
          /\ AddMetric(s, "Accuracy", v)
    \/ \E s \in Slots :
          /\ CallsUpTo(Cardinality(Slots)) < DirMaxTrial
          /\ NextTrial(s)
    \/ \E p \in Patterns :
          /\ \E s \in Slots : stores[s] = NoStore
          /\ Load(FreeSlot, p)
    \/ \E name \in Names :
          /\ \E s \in Slots : stores[s] = NoStore
          /\ New(FreeSlot, name)

SpecDir == InitShared /\ [][NextDir]_vars

----------------------------------------------------------------------------
(* A store seeded through metric_dict, and the views derived from it *)

LongLen == 11

\* The sample sequences the seeded trials hold.
SampleSeqs == {<<>>, <<80>>, <<90>>, <<1, 2, 3>>, <<80, 80, 90>>, [i \in 1..LongLen |-> i]}

\* The sample lists of a second trial.
LaterSeqs == {<<>>, <<90>>, <<80, 80, 90>>}

\* The trial mappings of a seeded metric.
TrialDicts ==
    {<<[k |-> TrialKey(0), v |-> a]>> : a \in SampleSeqs}
    \cup {<<[k |-> TrialKey(1), v |-> b]>> : b \in LaterSeqs}
    \cup {<<[k |-> TrialKey(0), v |-> a], [k |-> TrialKey(1), v |-> b]>> :
             a \in SampleSeqs, b \in LaterSeqs}

\* The metric_dict arguments: no metric, one metric, or Accuracy and then Loss.
MetricDicts ==
    {<<>>}
    \cup {<<[k |-> m, v |-> d]>> : m \in MetricNames, d \in TrialDicts}
    \cup {<<[k |-> "Accuracy", v |-> d], [k |-> "Loss", v |-> e]>> :
             d \in TrialDicts, e \in TrialDicts}

\* The trial_tag_list arguments, each tag a string.
ViewTagLists == {<<>>, <<<<"a">>>>, <<<<"a">>, <<"b">>>>}

InitView ==
    /\ \E tags \in ViewTagLists, d \in MetricDicts :
          stores = [s \in Slots |->
                       IF s = 1 THEN ConstructWith(DefaultName, "", tags, d) ELSE NoStore]
    /\ storage = <<>>
    /\ op = NoOp
    /\ calls = [s \in Slots |-> 0]
    /\ log = <<>>
    /\ view = NoView
    /\ out = NoOut

NextView ==
    \/ \E s \in 1..2 : Transpose(s)
    \/ Reseed(2)

SpecView == InitView /\ [][NextView]_vars

----------------------------------------------------------------------------
(* A seeded and dumped store, plotted and summarised *)

PlotForms == {"trial", "metric"}

SavePaths == {<<>>, <<"r">>}

InitReport ==
    /\ \E tags \in ViewTagLists, d \in MetricDicts :
          /\ stores = [s \in Slots |->
                          IF s = 1 THEN ConstructWith(DefaultName, "", tags, d) ELSE NoStore]
          /\ storage = Dump(<<>>, ConstructWith(DefaultName, "", tags, d), DefaultFilename)
    /\ op = NoOp
    /\ calls = [s \in Slots |-> 0]
    /\ log = <<>>
    /\ view = NoView
    /\ out = NoOut

NextReport ==
    \/ \E by \in PlotForms : TrajPlot(1, by)
    \/ \E by \in PlotForms : BoxPlot(1, by)
    \/ \E by \in PlotForms : AvgBarPlot(1, by)
    \/ \E by \in PlotForms : SumBarPlot(1, by)
    \/ \E by \in PlotForms : ViolinPlot(1, by)
    \/ \E save_path \in SavePaths : Summary(1, save_path)

SpecReport == InitReport /\ [][NextReport]_vars

----------------------------------------------------------------------------
(* A fresh store filled by add_metric and next_trial, plotted and summarised *)

InitUse ==
    /\ \E tags \in ViewTagLists :
          stores = [s \in Slots |->
                       IF s = 1 THEN Construct(DefaultName, "", tags) ELSE NoStore]
    /\ storage = <<>>
    /\ op = NoOp
    /\ calls = [s \in Slots |-> 0]
    /\ log = <<>>
    /\ view = NoView
    /\ out = NoOut

NextUse ==
    \/ \E m \in MetricNames :
          /\ Len(log) < UseMaxSamples
          /\ AddMetric(1, m, 80)
    \/ /\ calls[1] < UseMaxTrial
       /\ NextTrial(1)
    \/ TrajPlot(1, "trial")
    \/ BoxPlot(1, "trial")
    \/ AvgBarPlot(1, "trial")
    \/ SumBarPlot(1, "trial")
    \/ ViolinPlot(1, "trial")
    \/ Summary(1, <<>>)

SpecUse == InitUse /\ [][NextUse]_vars

----------------------------------------------------------------------------
(* A fresh store filled by add_metric and next_trial while a view of it is held *)

NextAlias ==
    \/ \E m \in MetricNames, v \in Values :
          /\ Len(log) < UseMaxSamples
          /\ AddMetric(1, m, v)
    \/ /\ calls[1] < UseMaxTrial
       /\ NextTrial(1)
    \/ Transpose(1)

SpecAlias == InitUse /\ [][NextAlias]_vars

----------------------------------------------------------------------------
(* A fresh store whose tex templates are set *)

TemplateArgs == {"mine.tex", "yours.tex"}

NextTemplates ==
    \/ \E m \in MetricNames :
          /\ Len(log) < UseMaxSamples
          /\ AddMetric(1, m, 80)
    \/ \E t \in TemplateArgs : SetBoxPlotTexTemplate(1, t)
    \/ \E t \in TemplateArgs : SetBarPlotTexTemplate(1, t)
    \/ \E t \in TemplateArgs : SetViolinPlotTexTemplate(1, t)
    \/ \E t \in TemplateArgs : SetTrajPlotTexTemplate(1, t)

SpecTemplates == InitUse /\ [][NextTemplates]_vars

----------------------------------------------------------------------------
(* Reading the state *)

\* metrics[m][key], the empty sequence when the metric or the trial is absent.
Samples(metrics, m, key) ==
    IF DictHas(metrics, m) /\ DictHas(DictGet(metrics, m), key)
    THEN DictGet(DictGet(metrics, m), key)
    ELSE <<>>

\* The (metric, trial key) pairs recorded in metrics.
Pairs(metrics) ==
    UNION {{<<metrics[i].k, metrics[i].v[j].k>> : j \in 1..Len(metrics[i].v)} :
              i \in 1..Len(metrics)}

\* Every (metric, trial key) pair of metrics occurs once.
WellFormed(metrics) ==
    /\ \A i, j \in 1..Len(metrics) : metrics[i].k = metrics[j].k => i = j
    /\ \A i \in 1..Len(metrics) :
          \A a, b \in 1..Len(metrics[i].v) : metrics[i].v[a].k = metrics[i].v[b].k => a = b

\* The values add_metric was given for metric m of slot s while s had made
\* t next_trial calls, oldest first.
RECURSIVE LoggedFrom(_, _, _, _)
LoggedFrom(l, s, m, t) ==
    IF l = <<>> THEN <<>>
    ELSE IF Head(l).s = s /\ Head(l).metric = m /\ Head(l).trial = t
         THEN <<Head(l).value>> \o LoggedFrom(Tail(l), s, m, t)
         ELSE LoggedFrom(Tail(l), s, m, t)

Logged(s, m, t) == LoggedFrom(log, s, m, t)

\* The trials (by number of next_trial calls made before) in which m got a value.
TrialsUsed(s, m) ==
    {t \in 0..calls[s] : \E i \in 1..Len(log) :
        log[i].s = s /\ log[i].metric = m /\ log[i].trial = t}

\* The number of next_trial calls made when m was first used.
FirstUse(s, m) == CHOOSE t \in TrialsUsed(s, m) : \A u \in TrialsUsed(s, m) : t <= u

\* The trial id a trial key of the form "trial-<digits>" names.
RECURSIVE ParseInt(_)
ParseInt(ds) ==
    IF ds = <<>> THEN 0
    ELSE 10 * ParseInt(SubSeq(ds, 1, Len(ds) - 1))
         + (CHOOSE d \in 0..9 : DigitChars[d + 1] = ds[Len(ds)])

TrialIdOf(key) == ParseInt(SubSeq(key, 7, Len(key)))

----------------------------------------------------------------------------
(* Claims about the store *)

\* C1: add_metric(n, v) does not fail; afterwards metrics[n]["trial-<trial_id>"] is
\* its previous sequence (empty when absent) with v appended; every other
\* (metric, trial) sequence, trial_id, name, trial_tag and trial_tag_list are
\* unchanged and no snapshot is written.
C1_AddMetricAppends ==
    [][op'.name = "add_metric" =>
        LET s == op'.s
            n == op'.metric
            key == TrialKey(stores[s].trial_id)
            before == stores[s].metrics
            after == stores'[s].metrics
        IN  /\ op'.err = "none"
            /\ WellFormed(after)
            /\ Samples(after, n, key) = Append(Samples(before, n, key), op'.value)
            /\ Pairs(after) = Pairs(before) \cup {<<n, key>>}
            /\ \A p \in Pairs(before) :
                  p # <<n, key>> => Samples(after, p[1], p[2]) = Samples(before, p[1], p[2])
            /\ stores'[s].trial_id = stores[s].trial_id
            /\ stores'[s].name = stores[s].name
            /\ stores'[s].trial_tag = stores[s].trial_tag
            /\ stores'[s].trial_tag_list = stores[s].trial_tag_list
            /\ \A x \in Slots \ {s} : stores'[x] = stores[x]
            /\ storage' = storage]_vars

\* C1 witness: add_metric has appended to a trial entry that held a sample.
C1_Witness ==
    /\ op.name = "add_metric"
    /\ Len(Samples(stores[op.s].metrics, op.metric, TrialKey(stores[op.s].trial_id))) >= 2

\* m got a value in each of the trials 0..k of the store in slot s.
UsedInEveryTrial(s, m) == TrialsUsed(s, m) = 0..calls[s]

\* C2: on a fresh store, when one metric m got values in each of the trials 0..k,
\* with one next_trial between consecutive trials, metrics[m] has exactly the keys
\* trial-0 .. trial-k in that order and trial-i holds the values added during
\* trial i, in the order they were added.
C2_TrialsInOrder ==
    \A m \in MetricNames :
        UsedInEveryTrial(1, m) =>
            /\ DictHas(stores[1].metrics, m)
            /\ DictKeys(DictGet(stores[1].metrics, m)) =
                   [i \in 1..(calls[1] + 1) |-> TrialKey(i - 1)]
            /\ \A i \in 1..(calls[1] + 1) :
                   DictGet(stores[1].metrics, m)[i].v = Logged(1, m, i - 1)

\* C2 witness: Accuracy 80, next_trial, Accuracy 90.
C2_Witness ==
    /\ log = <<[s |-> 1, metric |-> "Accuracy", value |-> 80, trial |-> 0],
               [s |-> 1, metric |-> "Accuracy", value |-> 90, trial |-> 1]>>
    /\ calls[1] = 1
    /\ stores[1].metrics =
           <<[k |-> "Accuracy",
              v |-> <<[k |-> <<"t", "r", "i", "a", "l", "-", "0">>, v |-> <<80>>],
                      [k |-> <<"t", "r", "i", "a", "l", "-", "1">>, v |-> <<90>>]>>]>>

\* C3 as stated: the number of trial entries under each metric equals the number
\* of next_trial calls made since the metric was first used, plus one.
C3_Original ==
    \A i \in 1..Len(stores[1].metrics) :
        Len(stores[1].metrics[i].v) = (calls[1] - FirstUse(1, stores[1].metrics[i].k)) + 1

\* C3 amended: the number of trial entries under each metric equals the number of
\* trials, from the metric's first use to the current one, in which it got a
\* value; it is at most the number of next_trial calls since the first use plus
\* one, and equal to it exactly when the metric got a value in every such trial.
C3_EntriesCountUsedTrials ==
    \A i \in 1..Len(stores[1].metrics) :
        LET m == stores[1].metrics[i].k
            entries == Len(stores[1].metrics[i].v)
            since == calls[1] - FirstUse(1, m)
        IN  /\ entries = Cardinality(TrialsUsed(1, m))
            /\ entries <= since + 1
            /\ entries = since + 1 <=> TrialsUsed(1, m) = FirstUse(1, m)..calls[1]

\* C3 witness: a metric with fewer entries than next_trial calls since its first
\* use plus one, after the trial counter has advanced twice.
C3_Witness ==
    \E i \in 1..Len(stores[1].metrics) :
        /\ calls[1] - FirstUse(1, stores[1].metrics[i].k) = 2
        /\ Len(stores[1].metrics[i].v) = 2

\* Metric names add_metric was ever given.
Introduced(s) == {log[i].metric : i \in {j \in 1..Len(log) : log[j].s = s}}

C4_StoreInvariant ==
    /\ \A m \in Introduced(1) : DictHas(stores[1].metrics, m)
    /\ \A i \in 1..Len(stores[1].metrics) :
          LET trials == stores[1].metrics[i].v IN
          /\ \A a, b \in 1..Len(trials) :
                a < b => TrialIdOf(trials[a].k) < TrialIdOf(trials[b].k)
          /\ \A a \in 1..Len(trials) :
                /\ trials[a].k = TrialKey(TrialIdOf(trials[a].k))
                /\ TrialIdOf(trials[a].k) <= stores[1].trial_id

\* C4: on a store that started empty, an introduced metric name stays a key of
\* metrics; within a metric the trial identifiers are in strictly increasing
\* trial-id order of insertion; every recorded trial id is <= trial_id; and
\* trial_id never decreases.
C4_Monotone ==
    /\ []C4_StoreInvariant
    /\ [][stores'[1].trial_id >= stores[1].trial_id]_vars

\* C4 witness: the second metric introduced has entries for two or more trials.
C4_Witness ==
    /\ Len(stores[1].metrics) = 2
    /\ Len(stores[1].metrics[2].v) >= 2
    /\ stores[1].trial_id >= 2

BaseName == <<"-", "m", "e", "t", "r", "i", "c", "_", "v", "i", "s", "u", "a", "l", "i", "z",
              "e", "r", ".", "d", "a", "t">>

\* "<name>-trial_id-<id>-metric_visualizer.dat"
SnapshotKey(name, id) ==
    name \o <<"-", "t", "r", "i", "a", "l", "_", "i", "d", "-">> \o FormatInt(id) \o BaseName

\* C5: next_trial increases trial_id by exactly 1 and then writes exactly one
\* snapshot, under "<name>-trial_id-<new trial_id>-metric_visualizer.dat"; the
\* trial_id serialized in it is the new value; metrics are unchanged.
C5_NextTrialSnapshot ==
    [][op'.name = "next_trial" =>
        LET s == op'.s
            new == stores[s].trial_id + 1
            key == SnapshotKey(stores[s].name, new)
        IN  /\ stores'[s].trial_id = new
            /\ stores'[s].metrics = stores[s].metrics
            /\ DOMAIN storage' = DOMAIN storage \cup {key}
            /\ \A f \in DOMAIN storage : f # key => storage'[f] = storage[f]
            /\ Unpickle(storage'[key]).trial_id = new
            /\ Unpickle(storage'[key]).name = stores[s].name]_vars

\* C5 witness: a second next_trial has written a snapshot next to the first.
C5_Witness ==
    /\ op.name = "next_trial"
    /\ stores[op.s].trial_id = 2
    /\ Cardinality(DOMAIN storage) = 2

\* C10: the snapshot written by the k-th next_trial holds exactly the samples
\* added before that call; samples added since the last next_trial are in no
\* snapshot, and the last snapshot holds every sample of the completed trials.
C10_SnapshotsHoldCompletedTrials ==
    /\ DOMAIN storage = {SnapshotKey(stores[1].name, k) : k \in 1..calls[1]}
    /\ \A k \in 1..calls[1] :
          LET snap == Unpickle(storage[SnapshotKey(stores[1].name, k)]).metrics IN
          /\ WellFormed(snap)
          /\ \A p \in Pairs(snap) : \E t \in 0..(k - 1) : p[2] = TrialKey(t)
          /\ \A m \in MetricNames : \A t \in 0..calls[1] :
                Samples(snap, m, TrialKey(t)) = IF t < k THEN Logged(1, m, t) ELSE <<>>

\* C10 witness: samples were added in a completed trial and in the trial in
\* progress, after two snapshots.
C10_Witness ==
    /\ calls[1] = 2
    /\ \E m \in MetricNames : Logged(1, m, 1) # <<>> /\ Logged(1, m, 2) # <<>>

----------------------------------------------------------------------------
(* Claims about persistence *)

\* C6 as stated: with add_metric, next_trial and load sharing one directory, every
\* next_trial writes its snapshot under a key that holds no earlier snapshot.
C6_Original ==
    [][op'.name = "next_trial" =>
        SnapshotKey(stores[op'.s].name, stores[op'.s].trial_id + 1) \notin DOMAIN storage]_vars

\* C7 as stated: load with the base filename right after the n-th next_trial of the
\* only store writing to the directory returns a store whose metrics, name and
\* trial_id equal those of the store at that n-th snapshot.
C7_Original ==
    [][(op.name = "next_trial" /\ op'.name = "load" /\ op'.pattern = DefaultFilename) =>
        /\ op'.err = "none"
        /\ stores'[op'.s].metrics = stores[1].metrics
        /\ stores'[op'.s].name = stores[1].name
        /\ stores'[op'.s].trial_id = stores[1].trial_id]_vars

\* The stored names a pattern matches.
Candidates(p) == {f \in DOMAIN storage : Contains(f, p)}

\* C8: load(pattern) reads exactly the blob named pattern when one exists, without
\* searching; otherwise the lexicographically greatest stored name matching the
\* pattern; the storage and every existing store are unchanged.
C8_LoadSelects ==
    [][op'.name = "load" =>
        LET p == op'.pattern
            s == op'.s
        IN  /\ storage' = storage
            /\ \A x \in Slots : stores[x] # NoStore => stores'[x] = stores[x]
            /\ p \in DOMAIN storage =>
                  /\ op'.err = "none"
                  /\ op'.file = p
                  /\ stores'[s] = Unpickle(storage[p])
            /\ (p \notin DOMAIN storage /\ Candidates(p) # {}) =>
                  /\ op'.err = "none"
                  /\ op'.file \in Candidates(p)
                  /\ \A g \in Candidates(p) : g = op'.file \/ StrLess(g, op'.file)
                  /\ stores'[s] = Unpickle(storage[op'.file])]_vars

\* C8 witness: load was given an exact name that a greater stored name contains.
C8_Witness ==
    /\ op.name = "load"
    /\ op.file = op.pattern
    /\ \E g \in Candidates(op.pattern) : StrLess(op.file, g)

\* C9: load(pattern) fails with ValueError, returning no store, exactly when no
\* blob has the exact name and no stored name matches; the storage is unchanged.
C9_LoadNotFound ==
    [][op'.name = "load" =>
        /\ op'.err \in {"none", "ValueError"}
        /\ op'.err = "ValueError" <=>
              (op'.pattern \notin DOMAIN storage /\ Candidates(op'.pattern) = {})
        /\ op'.err = "ValueError" => (stores' = stores /\ storage' = storage)
        /\ op'.err = "none" => stores'[op'.s] # NoStore]_vars

\* C9 witness: load failed although the directory holds a snapshot.
C9_Witness ==
    /\ op.name = "load"
    /\ op.err = "ValueError"
    /\ DOMAIN storage # {}

----------------------------------------------------------------------------
(* Claims about transpose *)

\* The first place (metric index, trial index) at which the loops over metrics
\* meet the trial key t.
FirstSeen(metrics, t) ==
    CHOOSE p \in (1..Len(metrics)) \X (1..Len(t) + LongLen) :
        /\ p[2] <= Len(metrics[p[1]].v)
        /\ metrics[p[1]].v[p[2]].k = t
        /\ \A i \in 1..Len(metrics) : \A j \in 1..Len(metrics[i].v) :
              metrics[i].v[j].k = t => (p[1] < i \/ (p[1] = i /\ p[2] <= j))

MetricIndex(metrics, m) == CHOOSE i \in 1..Len(metrics) : metrics[i].k = m

\* Two mappings record the same pairs, one with its two levels swapped, and the
\* same samples for each pair.
Swapped(M, T) ==
    /\ WellFormed(T)
    /\ Pairs(T) = {<<p[2], p[1]>> : p \in Pairs(M)}
    /\ \A p \in Pairs(M) : Samples(T, p[2], p[1]) = Samples(M, p[1], p[2])

\* C11: transpose() returns T with T[t][m] defined exactly when metrics[m][t] is, and
\* then equal to it; the trial keys of T are in first-seen order over the metrics
\* and their trials, and the metric keys of each T[t] in metric insertion order.
C11_TransposeSwaps ==
    [][op'.name = "transpose" =>
        LET M == stores[op'.s].metrics
            T == view'.map
        IN  /\ Swapped(M, T)
            /\ \A a, b \in 1..Len(T) :
                  a < b =>
                     LET p == FirstSeen(M, T[a].k)
                         q == FirstSeen(M, T[b].k)
                     IN  p[1] < q[1] \/ (p[1] = q[1] /\ p[2] < q[2])
            /\ \A x \in 1..Len(T) : \A a, b \in 1..Len(T[x].v) :
                  a < b => MetricIndex(M, T[x].v[a].k) < MetricIndex(M, T[x].v[b].k)]_vars

\* C11 witness: the first metric has trial-1 only, so trial-1 comes before trial-0
\* in the view, and holds both metrics.
C11_Witness ==
    /\ op.name = "transpose"
    /\ op.s = 1
    /\ Len(view.map) = 2
    /\ view.map[1].k = TrialKey(1)
    /\ view.map[2].k = TrialKey(0)
    /\ Len(view.map[1].v) = 2

\* Two mappings record the same pairs and the same samples for each pair.
SameContent(A, B) ==
    /\ WellFormed(A)
    /\ Pairs(A) = Pairs(B)
    /\ \A p \in Pairs(B) : Samples(A, p[1], p[2]) = Samples(B, p[1], p[2])

\* C12: transposing the transposed mapping (a store seeded with the view of store 1,
\* transposed in turn) gives the content of the original mapping, whatever the
\* order of its keys.
C12_TransposeTwice ==
    (op.name = "transpose" /\ op.s = 2) => SameContent(view.map, stores[1].metrics)

\* C12 witness: a mapping add_metric and next_trial can build, two metrics over two
\* trials, transposed twice.
C12_Witness ==
    /\ op.name = "transpose"
    /\ op.s = 2
    /\ stores[1].metrics =
          <<[k |-> "Accuracy", v |-> <<[k |-> TrialKey(0), v |-> <<80>>],
                                       [k |-> TrialKey(1), v |-> <<80, 80, 90>>]>>],
            [k |-> "Loss", v |-> <<[k |-> TrialKey(1), v |-> <<90>>]>>]>>

\* C13: transpose() leaves metrics (keys, orders, samples), trial_id, name,
\* trial_tag and trial_tag_list as they were, stores nothing back and writes no
\* snapshot.
C13_TransposePure ==
    [][op'.name = "transpose" =>
        /\ stores'[op'.s].metrics = stores[op'.s].metrics
        /\ stores'[op'.s].trial_id = stores[op'.s].trial_id
        /\ stores'[op'.s].name = stores[op'.s].name
        /\ stores'[op'.s].trial_tag = stores[op'.s].trial_tag
        /\ stores'[op'.s].trial_tag_list = stores[op'.s].trial_tag_list
        /\ stores' = stores
        /\ storage' = storage]_vars

\* C13 witness: transpose() returned a mapping that differs from metrics.
C13_Witness ==
    /\ op.name = "transpose"
    /\ view.map # <<>>
    /\ view.map # stores[op.s].metrics

----------------------------------------------------------------------------
(* Claims about trial labels, reductions and summary *)

PlotNames == {"traj_plot", "box_plot", "avg_bar_plot", "sum_bar_plot", "violin_plot"}

\* The labels the rule gives a metric: the tag list when it has one tag per trial,
\* the trial identifiers otherwise.
RuleLabels(tags, trials) ==
    IF Len(tags) = Len(trials) THEN tags ELSE [j \in 1..Len(trials) |-> trials[j].k]

TrialIndex(trials, t) == CHOOSE j \in 1..Len(trials) : trials[j].k = t

\* C15 as stated: the label column of each summary row is the tag of that position
\* when the tag list has one tag per trial of the metric, and the raw trial
\* identifier in every other case.
C15_Original ==
    (op.name = "summary" /\ out.err = "none") =>
        LET M == stores[op.s].metrics
            tags == stores[op.s].trial_tag_list
            V == VisitFrom(M, 1)
        IN  /\ Len(out.rows) = Len(V)
            /\ \A r \in 1..Len(out.rows) :
                  LET trials == DictGet(M, V[r].m)
                  IN  out.rows[r].label = RuleLabels(tags, trials)[TrialIndex(trials, V[r].t)]

\* C16 as stated: wherever labels are resolved for a metric, in a plot or in
\* summary, a diagnostic is emitted for it exactly when the tag list is not empty
\* and its length differs from the metric's trial count.
C16_Original ==
    (op.name \in PlotNames \cup {"summary"} /\ op.by # "metric") =>
        LET M == stores[op.s].metrics
            tags == stores[op.s].trial_tag_list
        IN  \A i \in 1..Len(out.labels) :
               (\E d \in 1..Len(out.diags) : out.diags[d] = out.labels[i].k)
                  <=> (tags # <<>> /\ Len(tags) # Len(M[i].v))

\* C16, the plots alone: the diagnostic is emitted exactly on a mismatch with a
\* non-empty tag list, and the mismatch raises nothing.
C16_PlotsOnly ==
    (op.name \in PlotNames /\ op.by = "trial") =>
        LET M == stores[op.s].metrics
            tags == stores[op.s].trial_tag_list
        IN  \A i \in 1..Len(out.labels) :
               (\E d \in 1..Len(out.diags) : out.diags[d] = out.labels[i].k)
                  <=> (tags # <<>> /\ Len(tags) # Len(M[i].v))

\* C17 as stated: with a trial that has no samples, the average and the sum by
\* trial fail with an error and give no value for that trial.
C17_Original ==
    (/\ op.name \in {"avg_bar_plot", "sum_bar_plot"}
     /\ op.by = "trial"
     /\ \E p \in Pairs(stores[op.s].metrics) :
           Samples(stores[op.s].metrics, p[1], p[2]) = <<>>)
        => /\ out.err # "none"
           /\ \A i \in 1..Len(out.Y) : \A j \in 1..Len(out.Y[i].v) :
                 stores[op.s].metrics[i].v[j].v # <<>>

\* The sum of the first n samples.
RECURSIVE Total(_, _)
Total(xs, n) == IF n = 0 THEN 0 ELSE Total(xs, n - 1) + xs[n]

\* C18: when no sample sequence is empty, the sum by trial has for every metric one
\* entry per trial of that metric, in trial order, the sum of that trial's samples,
\* and the average by trial has that sum divided by the sample count; no value of
\* another metric appears.
C18_Reductions ==
    (/\ op.name \in {"avg_bar_plot", "sum_bar_plot"}
     /\ op.by = "trial"
     /\ \A p \in Pairs(stores[op.s].metrics) :
           Samples(stores[op.s].metrics, p[1], p[2]) # <<>>)
        => LET M == stores[op.s].metrics
           IN  /\ out.err = "none"
               /\ Len(out.Y) = Len(M)
               /\ \A i \in 1..Len(M) :
                     /\ out.Y[i].k = M[i].k
                     /\ Len(out.Y[i].v) = Len(M[i].v)
                     /\ \A j \in 1..Len(M[i].v) :
                           LET xs == M[i].v[j].v
                               y == out.Y[i].v[j]
                           IN  IF op.name = "sum_bar_plot"
                               THEN y = Total(xs, Len(xs))
                               ELSE /\ y # NaN
                                    /\ y.num * Len(xs) = Total(xs, Len(xs)) * y.den

\* C18 witness: samples 1, 2, 3 average to 2 next to a second metric with other
\* values.
C18_Witness ==
    /\ op.name = "avg_bar_plot"
    /\ op.by = "trial"
    /\ Len(out.Y) = 2
    /\ stores[op.s].metrics[1].v = <<[k |-> TrialKey(0), v |-> <<1, 2, 3>>]>>
    /\ out.Y[1].v = <<[num |-> 2, den |-> 1]>>
    /\ Len(out.Y[2].v) = 2

Abs(x) == IF x < 0 THEN 0 - x ELSE x

C20_SummaryPure ==
    [][op'.name = "summary" =>
        /\ stores'[op'.s].metrics = stores[op'.s].metrics
        /\ stores'[op'.s].trial_id = stores[op'.s].trial_id
        /\ stores'[op'.s].name = stores[op'.s].name
        /\ stores'[op'.s].trial_tag = stores[op'.s].trial_tag
        /\ stores'[op'.s].trial_tag_list = stores[op'.s].trial_tag_list
        /\ stores' = stores
        /\ \A f \in DOMAIN storage : f \in DOMAIN storage' /\ storage'[f] = storage[f]
        /\ \A f \in DOMAIN storage' \ DOMAIN storage :
              storage'[f].cls # "MetricVisualizer"]_vars

\* C20 witness: summary(save_path) wrote its report next to the snapshot, for a
\* store whose tag list is longer than a metric's trials.
C20_Witness ==
    /\ op.name = "summary"
    /\ op.save_path # <<>>
    /\ ReportName(op.save_path) \in DOMAIN storage
    /\ DumpName(stores[op.s], DefaultFilename) \in DOMAIN storage
    /\ stores[op.s].metrics # <<>>
    /\ Len(stores[op.s].trial_tag_list) > Len(stores[op.s].metrics[1].v)

----------------------------------------------------------------------------
(* Claims about a store in use *)

\* C21: in a store that started empty and was changed only by add_metric and
\* next_trial, every recorded (metric, trial) entry holds at least one sample; so
\* summary() finds no empty trial and gives a row per entry, no bar height is the
\* average of nothing, and violin_plot gets no empty dataset.
C21_EntriesNotEmpty ==
    /\ \A s \in Slots :
          stores[s] # NoStore =>
             \A p \in Pairs(stores[s].metrics) : Samples(stores[s].metrics, p[1], p[2]) # <<>>
    /\ op.name = "summary" =>
          /\ out.err = "none"
          /\ Len(out.rows) = Cardinality(Pairs(stores[op.s].metrics))
    /\ op.name = "avg_bar_plot" =>
          \A i \in 1..Len(out.Y) : \A j \in 1..Len(out.Y[i].v) : out.Y[i].v[j] # NaN
    /\ op.name = "violin_plot" => out.err = "none"

\* C21 witness: after next_trial a metric has no entry for the new trial, and
\* summary() of the store gives a row for each of the two entries recorded.
C21_Witness ==
    /\ op.name = "summary"
    /\ calls[1] = UseMaxTrial
    /\ Len(stores[1].metrics) = 2
    /\ Len(out.rows) = 2

\* C22: while a view V returned by transpose() is held, add_metric(m, v) on its
\* store appends v to V[t][m] when t is the current trial and (m, t) was recorded
\* when V was produced; every other sequence of V stays as it was, V gets no new
\* metric or trial entry, and each sequence of V is the store's sequence.
C22_ViewSharesSamples ==
    [][(view # NoView /\ op'.name # "transpose") =>
        /\ Pairs(view'.map) = Pairs(view.map)
        /\ \A p \in Pairs(view.map) :
              /\ Samples(view'.map, p[1], p[2]) =
                    IF /\ op'.name = "add_metric"
                       /\ op'.s = view.owner
                       /\ op'.metric = p[2]
                       /\ p[1] = TrialKey(stores[op'.s].trial_id)
                    THEN Append(Samples(view.map, p[1], p[2]), op'.value)
                    ELSE Samples(view.map, p[1], p[2])
              /\ Samples(view'.map, p[1], p[2]) =
                    Samples(stores'[view.owner].metrics, p[2], p[1])]_vars

\* C22 witness: the second add_metric of the current trial came after transpose()
\* and its value is at the end of the view's sequence.
C22_Witness ==
    /\ op.name = "add_metric"
    /\ view # NoView
    /\ Len(log) = 2
    /\ <<TrialKey(stores[op.s].trial_id), op.metric>> \in Pairs(view.map)
    /\ LET xs == Samples(view.map, TrialKey(stores[op.s].trial_id), op.metric)
       IN  Len(xs) = 2 /\ xs[1] # xs[2] /\ xs[2] = op.value

----------------------------------------------------------------------------
(* Claims about the tex templates *)

\* The four templates of a store other than the one named by its setter's name.
OtherTemplates(self, setter) ==
    [box |-> IF setter = "set_box_plot_tex_template" THEN "" ELSE self.box_plot_tex_template,
     bar |-> IF setter = "set_bar_plot_tex_template" THEN "" ELSE self.bar_plot_tex_template,
     violin |-> IF setter = "set_violin_plot_tex_template"
                THEN "" ELSE self.violin_plot_tex_template,
     traj |-> IF setter = "set_traj_plot_tex_template" THEN "" ELSE self.traj_plot_tex_template]

\* The template of a store named by a setter's name.
OwnTemplate(self, setter) ==
    CASE setter = "set_box_plot_tex_template" -> self.box_plot_tex_template
      [] setter = "set_bar_plot_tex_template" -> self.bar_plot_tex_template
      [] setter = "set_violin_plot_tex_template" -> self.violin_plot_tex_template
      [] setter = "set_traj_plot_tex_template" -> self.traj_plot_tex_template

TemplateSetters ==
    {"set_box_plot_tex_template", "set_bar_plot_tex_template",
     "set_violin_plot_tex_template", "set_traj_plot_tex_template"}

\* C23 as stated: set_X_plot_tex_template(t) makes the store's X_plot_tex_template
\* equal to t and leaves its other three templates and its data as they were.
C23_Original ==
    [][op'.name \in TemplateSetters =>
        /\ OwnTemplate(stores'[op'.s], op'.name) = op'.template
        /\ OtherTemplates(stores'[op'.s], op'.name) = OtherTemplates(stores[op'.s], op'.name)
        /\ stores'[op'.s].metrics = stores[op'.s].metrics
        /\ stores'[op'.s].trial_id = stores[op'.s].trial_id
        /\ stores'[op'.s].name = stores[op'.s].name
        /\ stores'[op'.s].trial_tag = stores[op'.s].trial_tag
        /\ stores'[op'.s].trial_tag_list = stores[op'.s].trial_tag_list]_vars

\* C23 for the box, violin and traj setters alone.
C23_ExceptBar ==
    [][op'.name \in TemplateSetters \ {"set_bar_plot_tex_template"} =>
        /\ OwnTemplate(stores'[op'.s], op'.name) = op'.template
        /\ OtherTemplates(stores'[op'.s], op'.name) = OtherTemplates(stores[op'.s], op'.name)
        /\ stores'[op'.s].metrics = stores[op'.s].metrics
        /\ stores'[op'.s].trial_id = stores[op'.s].trial_id
        /\ stores'[op'.s].name = stores[op'.s].name
        /\ stores'[op'.s].trial_tag = stores[op'.s].trial_tag
        /\ stores'[op'.s].trial_tag_list = stores[op'.s].trial_tag_list]_vars

====
